---- MODULE Spec2Model ----
(***************************************************************************)
(* A model of the easy_baxter perception node (scripts/image_processing.py) *)
(* and of Arm.pick_and_place_plan (src/easy_baxter/__init__.py).            *)
(*                                                                          *)
(* Numbers.  Reals are modelled exactly as rationals.  Pixel coordinates    *)
(* that OpenCV keeps as float32 (the corners of a rotated rectangle) are    *)
(* integers in units of 1/FP pixel; positions are integers in hundredths    *)
(* of a centimetre (the code rounds them to two decimals); angles leaving   *)
(* get_angle are integers in degrees (the model only feeds it edges whose   *)
(* direction is a multiple of 45 degrees, where arccos is exact), and the   *)
(* yaw of a detection is in hundredths of a radian.                         *)
(*                                                                          *)
(* Images.  A pixel buffer is modelled by what is in it: uniformly coloured *)
(* rectangles on a background (objs) and the polylines drawn on it (marks). *)
(* A numpy slice is a view, so a crop shares the marks of the buffer it was *)
(* cut from.  The OpenCV stages are modelled on these regions, each by what *)
(* it does to a region (see the comment of each operator).                  *)
(***************************************************************************)
EXTENDS Integers, Sequences, FiniteSets, TLC

VARIABLES
    \* main(): the node's loop
    pc, raw, orig, arrangement, processed, shown, fault, pubImg, pubLists,
    \* detect() called on one masked image
    dpc, dImage, dDims, dOut,
    \* get_angle() called on one set of box points
    gpc, gBox, gOut,
    \* a caller that calls process_image() on the buffer it holds
    tpc, tBuf, tOrig, tCalls, tResults,
    \* Arm.pick_and_place_plan()
    apc, pick_pose, place_pose, grip, target, pick_plan, place_plan, alog

mainVars   == <<pc, raw, orig, arrangement, processed, shown, fault, pubImg, pubLists>>
detectVars == <<dpc, dImage, dDims, dOut>>
angleVars  == <<gpc, gBox, gOut>>
twiceVars  == <<tpc, tBuf, tOrig, tCalls, tResults>>
armVars    == <<apc, pick_pose, place_pose, grip, target, pick_plan, place_plan, alog>>
vars       == <<mainVars, detectVars, angleVars, twiceVars, armVars>>

None == "none"

-----------------------------------------------------------------------------
(* Arithmetic *)

Abs(x) == IF x < 0 THEN -x ELSE x

\* the element of a set of one element; {f(x) : x \in {e}} computes e once
Only(S) == CHOOSE x \in S : TRUE

Max2(a, b) == IF a >= b THEN a ELSE b

Min2(a, b) == IF a <= b THEN a ELSE b

RECURSIVE GCD(_, _)
GCD(a, b) == IF b = 0 THEN a ELSE GCD(b, a % b)

\* n/d rounded to the nearest integer, halves up (OpenCV's (x + half) >> shift)
RoundHalfUp(n, d) == (2 * n + d) \div (2 * d)

\* n/d rounded to the nearest integer, halves away from zero (Python 2 round)
RoundHalfAway(n, d) ==
    IF n >= 0 THEN (2 * n + d) \div (2 * d) ELSE -((2 * (-n) + d) \div (2 * d))

\* n/d truncated toward zero (numpy's float -> intp cast)
Trunc(n, d) == IF n >= 0 THEN n \div d ELSE -((-n) \div d)

\* fixed-point unit of the float32 pixel coordinates: 1/FP pixel
FP == 2 * 169

\* unit of the cosine and sine of a rotated rectangle: 1/TRIG
TRIG == 13 * 1

-----------------------------------------------------------------------------
(* Configuration: image_processing.py, lines 35-53 *)

ACTUAL_WIDTH == 43
ACTUAL_HEIGHT == 20

LOWER_BLUE == <<90, 80, 10>>
UPPER_BLUE == <<160, 255, 170>>
LOWER_GREEN == <<80, 100, 0>>
UPPER_GREEN == <<130, 255, 255>>
LOWER_YELLOW == <<5, 60, 75>>
UPPER_YELLOW == <<40, 130, 255>>
LOWER_RED_1 == <<0, 70, 0>>
UPPER_RED_1 == <<10, 255, 255>>
LOWER_RED_2 == <<150, 70, 50>>
UPPER_RED_2 == <<179, 255, 255>>

\* the colour of the ROI rectangle (line 166) and of a detection outline (line 112), BGR
ROI_COLOR == <<0, 0, 0>>
OUTLINE_COLOR == <<255, 255, 0>>

\* contours of at most this area are dropped (line 97)
MIN_AREA == 800

\* the z of every detection, in hundredths of a centimetre (6.5, line 111)
STANDOFF == 650

\* Canny's upper hysteresis threshold (line 90)
CANNY_HIGH == 80

\* half the side of the 11x11 structuring element (line 186), and the
\* iterations of dilate and erode (lines 192-193)
KERNEL_REACH == 5
DILATE_ITER == 2
ERODE_ITER == 3

\* thickness of the lines of cv2.rectangle (line 166) and cv2.drawContours (line 112)
THICKNESS == 2

\* cv2.medianBlur(image, 5), line 180
BLUR_KSIZE == 5

-----------------------------------------------------------------------------
(* Pixels.  A pixel is <<b, g, r>>, or <<h, s, v>> after cvtColor. *)

Max3(p) == Max2(p[1], Max2(p[2], p[3]))

Min3(p) == Min2(p[1], Min2(p[2], p[3]))

\* cv2.cvtColor(image, cv2.COLOR_BGR2HSV) on 8-bit pixels: h in 0..179
bgr2hsv(p) ==
    LET b == p[1]
        g == p[2]
        r == p[3]
        v == Max3(p)
        diff == v - Min3(p)
        s == IF v = 0 THEN 0 ELSE RoundHalfUp(255 * diff, v)
        hnum == IF v = r THEN g - b
                ELSE IF v = g THEN b - r + 2 * diff
                ELSE r - g + 4 * diff
        h0 == IF diff = 0 THEN 0 ELSE RoundHalfUp(30 * hnum, diff)
        h == IF h0 < 0 THEN h0 + 180 ELSE h0
    IN  <<h, s, v>>

\* cv2.inRange: every channel within its bounds, both inclusive
inRange(p, lower, upper) == \A i \in 1..3 : lower[i] <= p[i] /\ p[i] <= upper[i]

\* cv2.cvtColor(image, cv2.COLOR_HSV2BGR_FULL) (line 87) on 8-bit pixels, h in 0..255.
\* detect applies it to a BGR image, so b is read as h, g as s and r as v.
hsv2bgr_full(p) ==
    LET h == p[1]
        s == p[2]
        v == p[3]
        sector == (6 * h) \div 256
        f == (6 * h) % 256
        pp == RoundHalfUp(v * (255 - s), 255)
        q == RoundHalfUp(v * (255 * 256 - s * f), 255 * 256)
        t == RoundHalfUp(v * (255 * 256 - s * (256 - f)), 255 * 256)
    IN  CASE sector = 0 -> <<pp, t, v>>
          [] sector = 1 -> <<pp, v, q>>
          [] sector = 2 -> <<t, v, pp>>
          [] sector = 3 -> <<v, q, pp>>
          [] sector = 4 -> <<v, pp, t>>
          [] OTHER -> <<q, pp, v>>

-----------------------------------------------------------------------------
(* Geometry.  A point is <<x, y>>; a contour is a sequence of integer points. *)

Cross(p, q) == p[1] * q[2] - q[1] * p[2]

Nxt(pts, i) == pts[(i % Len(pts)) + 1]

\* Green's-formula accumulators of a polygon, as cv2.moments and cv2.contourArea
\* compute them: a00 = sum of the cross products, a10 and a01 weighted by x and y
RECURSIVE A00(_, _)
A00(pts, i) ==
    IF i > Len(pts) THEN 0 ELSE Cross(pts[i], Nxt(pts, i)) + A00(pts, i + 1)

RECURSIVE A10(_, _)
A10(pts, i) ==
    IF i > Len(pts) THEN 0
    ELSE (pts[i][1] + Nxt(pts, i)[1]) * Cross(pts[i], Nxt(pts, i)) + A10(pts, i + 1)

RECURSIVE A01(_, _)
A01(pts, i) ==
    IF i > Len(pts) THEN 0
    ELSE (pts[i][2] + Nxt(pts, i)[2]) * Cross(pts[i], Nxt(pts, i)) + A01(pts, i + 1)

\* cv2.contourArea(i), doubled: the area is |a00| / 2
contourArea2(pts) == Abs(A00(pts, 1))

\* cv2.moments(box_points): m00 = |a00|/2, m10 = |a10|/6, m01 = |a01|/6 for a
\* polygon in the first quadrant; every moment is 0 when a00 is 0.  The record
\* keeps the numerators: m00 = m00x2 / 2, m10 = m10x6 / 6, m01 = m01x6 / 6.
moments(pts) ==
    LET a00 == A00(pts, 1)
    IN  IF a00 = 0 THEN [m00x2 |-> 0, m10x6 |-> 0, m01x6 |-> 0]
        ELSE [m00x2 |-> Abs(a00), m10x6 |-> Abs(A10(pts, 1)), m01x6 |-> Abs(A01(pts, 1))]

\* the rational n/d in lowest terms, d > 0, as <<n, d>>
Frac(n, d) ==
    LET g == GCD(Abs(n), Abs(d))
        sgn == IF d < 0 THEN -1 ELSE 1
    IN  <<sgn * (n \div g), sgn * (d \div g)>>

\* the corners of the lattice rectangle [x0, x1] x [y0, y1], in the order
\* cv2.findContours follows an outer border from its top-left point
RectPts(x0, y0, x1, y1) == <<<<x0, y0>>, <<x0, y1>>, <<x1, y1>>, <<x1, y0>>>>

\* cv2.minAreaRect(i) of an upright lattice rectangle: centre, size (width
\* along the direction of the angle) and the cosine and sine of the angle,
\* which lies in [-90, 0) degrees.  An upright rectangle comes back with angle
\* -90 and its sides exchanged.
minAreaRect(pts) ==
    [cx |-> (FP \div 2) * (pts[1][1] + pts[3][1]),
     cy |-> (FP \div 2) * (pts[1][2] + pts[3][2]),
     sw |-> FP * (pts[3][2] - pts[1][2]),
     sh |-> FP * (pts[3][1] - pts[1][1]),
     cs |-> 0, sn |-> -TRIG]

\* cv2.boxPoints(rect): with a = sin/2 and b = cos/2,
\*   pt0 = (cx - a*h - b*w, cy + b*h - a*w), pt1 = (cx + a*h - b*w, cy - b*h - a*w),
\*   pt2 = 2c - pt0, pt3 = 2c - pt1
boxPoints(rect) ==
    LET ah == (rect.sn * rect.sh) \div (2 * TRIG)
        aw == (rect.sn * rect.sw) \div (2 * TRIG)
        bh == (rect.cs * rect.sh) \div (2 * TRIG)
        bw == (rect.cs * rect.sw) \div (2 * TRIG)
        p0 == <<rect.cx - ah - bw, rect.cy + bh - aw>>
        p1 == <<rect.cx + ah - bw, rect.cy - bh - aw>>
    IN  <<p0, p1,
          <<2 * rect.cx - p0[1], 2 * rect.cy - p0[2]>>,
          <<2 * rect.cx - p1[1], 2 * rect.cy - p1[2]>>>>

\* np.intp(...): every coordinate truncated toward zero
intp(fpts) == [i \in 1..Len(fpts) |-> <<Trunc(fpts[i][1], FP), Trunc(fpts[i][2], FP)>>]

-----------------------------------------------------------------------------
(* get_angle: lines 65-81 *)

Norm2(e) == e[1] * e[1] + e[2] * e[2]

\* np.arccos(ex / |e| + add) in degrees, for add = 0 and a non-zero edge along
\* an axis or a diagonal
arccos(e, add) ==
    CASE add = 0 /\ e[2] = 0 /\ e[1] > 0 -> 0
      [] add = 0 /\ e[2] = 0 /\ e[1] < 0 -> 180
      [] add = 0 /\ e[1] = 0 /\ e[2] # 0 -> 90
      [] add = 0 /\ e[1] = e[2] /\ e[1] > 0 -> 45
      [] add = 0 /\ e[1] = -e[2] /\ e[1] > 0 -> 45
      [] add = 0 /\ e[1] = e[2] /\ e[1] < 0 -> 135
      [] add = 0 /\ e[1] = -e[2] /\ e[1] < 0 -> 135

\* a choice that never looks at the second edge
first_edge(rect_points) ==
    <<rect_points[2][1] - rect_points[1][1], rect_points[2][2] - rect_points[1][2]>>

\* Which edge get_angle measures: edge2 only when it is strictly the longer
get_angle_used_edge(rect_points) ==
    LET edge1 == <<rect_points[2][1] - rect_points[1][1], rect_points[2][2] - rect_points[1][2]>>
        edge2 == <<rect_points[3][1] - rect_points[2][1], rect_points[3][2] - rect_points[2][2]>>
    IN  IF Norm2(edge2) > Norm2(edge1) THEN edge2 ELSE edge1

\* The argument of arccos is norm(reference) / norm(used_edge) / reference[0]
\* * used_edge[0] + reference[1] * used_edge[1], with reference = [1.0, 0.0]:
\* used_edge[0] / |used_edge| plus 0 * used_edge[1].  For the zero edge 1/0 is
\* inf and inf * 0 is nan, which every later operation keeps.
get_angle(rect_points) ==
    LET used_edge == get_angle_used_edge(rect_points)
        reference == <<1, 0>>
    IN  IF Norm2(used_edge) = 0 THEN "nan"
        ELSE LET my_angle == arccos(used_edge, reference[2] * used_edge[2]) + 180
             IN  (my_angle % 360) - 180

\* round(angle, 2) of an angle given in degrees: hundredths of a radian
round_angle(deg) == RoundHalfAway(deg * 314159, 180 * 1000)

-----------------------------------------------------------------------------
(* detect: lines 84-114.  An image is a record: size, the regions objs of   *)
(* one colour each (col, and the corners pts) on a dark ground, and the    *)
(* lines marks drawn over them (col, and the corners pts of the polygon).  *)

\* the bounding box <<x0, y0, x1, y1>> of four points
Bounds(pts) ==
    <<Min2(Min2(pts[1][1], pts[2][1]), Min2(pts[3][1], pts[4][1])),
      Min2(Min2(pts[1][2], pts[2][2]), Min2(pts[3][2], pts[4][2])),
      Max2(Max2(pts[1][1], pts[2][1]), Max2(pts[3][1], pts[4][1])),
      Max2(Max2(pts[1][2], pts[2][2]), Max2(pts[3][2], pts[4][2]))>>

Inset(b, k) == <<b[1] + k, b[2] + k, b[3] - k, b[4] - k>>

NonEmpty(b) == b[1] < b[3] /\ b[2] < b[4]

\* Lines 87-90: the image is read as HSV and converted (b as h, g as s, r as
\* v); Canny marks a step up from black that is more than a quarter of the
\* upper threshold (a Sobel step of height c has magnitude 4c).
IsDark(col) == 4 * Max3(hsv2bgr_full(col)) <= CANNY_HIGH

\* a line of the given thickness covers thickness \div 2 pixels on each side of
\* its centre line
LineReach(thickness) == thickness \div 2

\* the part of the box b of a region that is not painted over by a dark line
\* running along its border
RECURSIVE seen_bounds(_, _)
seen_bounds(b, marks) ==
    IF \E i \in 1..Len(marks) : IsDark(marks[i].col) /\ Bounds(marks[i].pts) = b
    THEN seen_bounds(Inset(b, LineReach(THICKNESS)), marks)
    ELSE b

\* Lines 94-95: the outer border of every region that is not dark
seen_outline(blob, marks) ==
    Only({IF b = Bounds(blob.pts) THEN blob.pts ELSE RectPts(b[1], b[2], b[3], b[4]) :
             b \in {seen_bounds(Bounds(blob.pts), marks)}})

findContours(image) ==
    Only({[i \in 1..Len(lit) |-> seen_outline(lit[i], image.marks)] :
             lit \in {SelectSeq(image.objs, LAMBDA blob :
                         /\ ~IsDark(blob.col)
                         /\ NonEmpty(seen_bounds(Bounds(blob.pts), image.marks)))}})

\* the line is drawn once however often it is drawn
drawMark(marks, m) ==
    IF \E i \in 1..Len(marks) : marks[i] = m THEN marks ELSE Append(marks, m)

\* Line 112: cv2.drawContours(display, [box_points], 0, color, thickness)
drawContours(display, box_points, color) ==
    [display EXCEPT !.marks = drawMark(@, [col |-> color, pts |-> box_points])]

\* a filter that lets a contour of exactly the minimum area through
area_passes_inclusive(contour) == contourArea2(contour) >= 2 * MIN_AREA

\* Line 97
area_passes(contour) == contourArea2(contour) > 2 * MIN_AREA

\* Lines 103-106: one coordinate of the position, in hundredths of a centimetre:
\* round((m1/m00 - dimension/2.0) * scale, 2), with scale = scale[1] / scale[2]
center_coord(m1x6, m00x2, dimension, scale) ==
    LET c == Frac(m1x6, 3 * m00x2)
    IN  RoundHalfAway(100 * scale[1] * (2 * c[1] - dimension * c[2]),
                      2 * c[2] * scale[2])

\* a detection whose x keeps the sign of center_x
detection_unnegated(center_x, center_y, angle) ==
    <<<<center_x, center_y, STANDOFF>>, <<0, 0, angle>>>>

\* Line 111
detection(center_x, center_y, angle) == <<<<-center_x, center_y, STANDOFF>>, <<0, 0, angle>>>>

\* Lines 96-112, from contour i on.  acc.fitted lists the contours that got a
\* bounding rectangle; acc.fault is set when the division by m00 raises
\* ZeroDivisionError, which ends the call.
RECURSIVE detect_loop(_, _, _, _, _)
detect_loop(contours, dimensions, scale, i, acc) ==
    IF i > Len(contours) THEN acc
    ELSE IF ~area_passes(contours[i])
    THEN detect_loop(contours, dimensions, scale, i + 1, acc)
    ELSE LET rect == minAreaRect(contours[i])
             box_points == intp(boxPoints(rect))
             m == moments(box_points)
             fit == [acc EXCEPT !.fitted = Append(@, i)]
         IN  IF m.m00x2 = 0
             THEN [fit EXCEPT !.fault = TRUE]
             ELSE LET center_x == center_coord(m.m10x6, m.m00x2, dimensions[1], scale[1])
                      center_y == center_coord(m.m01x6, m.m00x2, dimensions[2], scale[2])
                      angle == round_angle(get_angle(box_points))
                  IN  Only({detect_loop(contours, dimensions, scale, i + 1, next) :
                          next \in {[fit EXCEPT
                                       !.detected = Append(@, detection(center_x, center_y, angle)),
                                       !.display = drawContours(@, box_points, OUTLINE_COLOR)]}})

detect(image, dimensions, scale, display) ==
    Only({detect_loop(contours, dimensions, scale, 1, first) :
             contours \in {findContours(image)},
             first \in {[detected |-> <<>>, display |-> display,
                         fault |-> FALSE, fitted |-> <<>>]}})

-----------------------------------------------------------------------------
(* process_image, lines 143-161: the region of interest and the scale *)

\* upper_left, bottom_right of a frame of the given width and height
upper_left(width, height) == <<0, height \div 3>>

bottom_right(width, height) == <<width, height>>

\* dimensions = [cropped_width, cropped_height]
roi_dimensions(width, height) ==
    <<bottom_right(width, height)[1] - upper_left(width, height)[1],
      bottom_right(width, height)[2] - upper_left(width, height)[2]>>

\* scale = [ACTUAL_WIDTH / cropped_width, ACTUAL_HEIGHT / cropped_height], each <<n, d>>
roi_scale(dimensions) == <<<<ACTUAL_WIDTH, dimensions[1]>>, <<ACTUAL_HEIGHT, dimensions[2]>>>>

-----------------------------------------------------------------------------
(* Colours of the scenes, BGR.  RED is in the first red range, MAGENTA in the *)
(* second, TEAL in the green range only, CREAM in the yellow range only,      *)
(* NAVY in the blue range only, WHITE and GRAY in none.                       *)

RED == <<0, 0, 255>>
MAGENTA == <<128, 0, 255>>
TEAL == <<255, 200, 100>>
CREAM == <<128, 255, 255>>
NAVY == <<150, 0, 75>>
WHITE == <<255, 255, 255>>
GRAY == <<128, 128, 128>>

-----------------------------------------------------------------------------
(* SpecDetect: detect applied to one masked image *)

\* the longest sequence of blobs in a masked image
MaxContours == 2

\* frame sizes the camera can deliver
FrameSizes == {<<640, 400>>, <<960, 600>>, <<320, 200>>}

\* blobs that fit every region of interest; the areas of the first three are
\* 780, 800 and 820
SmallBlobs ==
    {[pts |-> RectPts(100, 50, 139, 70), col |-> RED],
     [pts |-> RectPts(100, 50, 140, 70), col |-> RED],
     [pts |-> RectPts(100, 50, 141, 70), col |-> RED],
     [pts |-> RectPts(30, 80, 65, 115), col |-> CREAM],
     [pts |-> RectPts(200, 20, 222, 120), col |-> TEAL],
     [pts |-> RectPts(11, 22, 60, 51), col |-> RED],
     [pts |-> RectPts(150, 30, 250, 90), col |-> OUTLINE_COLOR]}

MaskedImages(dimensions) ==
    {[size |-> dimensions, objs |-> blobs, marks |-> <<>>] :
        blobs \in UNION {[1..n -> SmallBlobs] : n \in 0..MaxContours}}

\* the frame the outlines are drawn on
Blank(dimensions) == [size |-> dimensions, objs |-> <<>>, marks |-> <<>>]

MainIdle ==
    /\ pc = "off" /\ raw = None /\ orig = None /\ arrangement = None
    /\ processed = None /\ shown = None /\ fault = FALSE
    /\ pubImg = None /\ pubLists = None

DetectIdle == dpc = "off" /\ dImage = None /\ dDims = None /\ dOut = None

AngleIdle == gpc = "off" /\ gBox = None /\ gOut = None

TwiceIdle == tpc = "off" /\ tBuf = None /\ tOrig = None /\ tCalls = 0 /\ tResults = <<>>

ArmIdle ==
    /\ apc = "off" /\ pick_pose = None /\ place_pose = None /\ grip = None
    /\ target = None /\ pick_plan = None /\ place_plan = None /\ alog = <<>>

DetectInit ==
    /\ dpc = "ready"
    /\ dDims \in {roi_dimensions(f[1], f[2]) : f \in FrameSizes}
    /\ dImage \in MaskedImages(dDims)
    /\ dOut = None
    /\ MainIdle /\ AngleIdle /\ TwiceIdle /\ ArmIdle

\* detected, display = detect(image, dimensions, scale, display)
DetectCall ==
    /\ dpc = "ready"
    /\ dOut' = detect(dImage, dDims, roi_scale(dDims), Blank(dDims))
    /\ dpc' = "done"
    /\ UNCHANGED <<dImage, dDims, mainVars, angleVars, twiceVars, armVars>>

DetectNext == DetectCall

SpecDetect == DetectInit /\ [][DetectNext]_vars

-----------------------------------------------------------------------------
(* Claims about detect, checked under SpecDetect *)

\* the contours of the call, and the box points the loop computes for contour i
dContours == findContours(dImage)

dBox(i) == intp(boxPoints(minAreaRect(dContours[i])))

dFitted(i) == \E k \in 1..Len(dOut.fitted) : dOut.fitted[k] = i

\* the loop got as far as contour i
dReached(i) == ~dOut.fault \/ i <= dOut.fitted[Len(dOut.fitted)]

\* x, in hundredths, is a nearest hundredth to n/d
IsRoundOf(x, n, d) == 2 * Abs(x * d - 100 * n) <= d

\* four times the centroid of a rectangle: the sum of its corners
CornerSum(box) ==
    <<box[1][1] + box[2][1] + box[3][1] + box[4][1],
      box[1][2] + box[2][2] + box[3][2] + box[4][2]>>

\* C1: a contour that passes the area filter and whose box points have m00 = 0
\* is skipped silently: the call raises no fault and returns one detection for
\* every other contour that passes the filter.  detect_loop has no such test
\* (it sets acc.fault when m00 = 0), but a contour of more than 800 square
\* pixels whose rectangle truncates to collinear corners does not occur among
\* the outer borders of lattice regions in a frame the camera delivers, so the
\* formula holds here without its case ever arising.
C1_SilentSkip ==
    dpc = "done" =>
        /\ ~dOut.fault
        /\ Len(dOut.detected) =
               Cardinality({i \in 1..Len(dContours) :
                   area_passes(dContours[i]) /\ A00(dBox(i), 1) # 0})

\* the case of C1: a contour that passes the filter with degenerate box points
C1_Degenerate ==
    /\ dpc = "done"
    /\ \E i \in 1..Len(dContours) :
           area_passes(dContours[i]) /\ A00(dBox(i), 1) = 0

\* C5 as stated: the position of every detection is exactly
\* x = -(px - roi_width/2) * sx, y = (py - roi_height/2) * sy, z = 6.5
C5_ExactPosition ==
    dpc = "done" =>
        \A k \in 1..Len(dOut.detected) :
            LET c4 == CornerSum(dBox(dOut.fitted[k]))
                pos == dOut.detected[k][1]
                s == roi_scale(dDims)
            IN  /\ -pos[1] * (4 * s[1][2]) = 100 * s[1][1] * (c4[1] - 2 * dDims[1])
                /\ pos[2] * (4 * s[2][2]) = 100 * s[2][1] * (c4[2] - 2 * dDims[2])
                /\ pos[3] = 650

\* C5 amended: x is -(px - roi_width/2) * sx and y is (py - roi_height/2) * sy,
\* each rounded to two decimals, and z is 6.5
C5_RoundedPosition ==
    dpc = "done" =>
        \A k \in 1..Len(dOut.detected) :
            LET c4 == CornerSum(dBox(dOut.fitted[k]))
                pos == dOut.detected[k][1]
                s == roi_scale(dDims)
            IN  /\ IsRoundOf(-pos[1], s[1][1] * (c4[1] - 2 * dDims[1]), 4 * s[1][2])
                /\ IsRoundOf(pos[2], s[2][1] * (c4[2] - 2 * dDims[2]), 4 * s[2][2])
                /\ pos[3] = 650

\* a detection whose x and y are both off the exact value, with x not zero
C5_Witness ==
    /\ dpc = "done"
    /\ \E k \in 1..Len(dOut.detected) :
           LET c4 == CornerSum(dBox(dOut.fitted[k]))
               pos == dOut.detected[k][1]
               s == roi_scale(dDims)
           IN  /\ pos[1] # 0
               /\ -pos[1] * (4 * s[1][2]) # 100 * s[1][1] * (c4[1] - 2 * dDims[1])
               /\ pos[2] * (4 * s[2][2]) # 100 * s[2][1] * (c4[2] - 2 * dDims[2])

-----------------------------------------------------------------------------
(* process_image: lines 140-232.  A frame is an image whose objs are the     *)
(* upright rectangles of the scene on a GRAY ground.                         *)

BACKGROUND == GRAY

Shift(pts, dx, dy) == [i \in 1..Len(pts) |-> <<pts[i][1] + dx, pts[i][2] + dy>>]

ShiftAll(regions, dx, dy) ==
    [i \in 1..Len(regions) |-> [regions[i] EXCEPT !.pts = Shift(@, dx, dy)]]

\* the part of the box b inside the box roi
Clip(b, roi) == <<Max2(b[1], roi[1]), Max2(b[2], roi[2]), Min2(b[3], roi[3]), Min2(b[4], roi[4])>>

Within(a, b) == b[1] <= a[1] /\ b[2] <= a[2] /\ a[3] <= b[3] /\ a[4] <= b[4]

\* Line 166: cv2.rectangle(img, pt1, pt2, color, thickness) draws on img itself
rectangle(img, pt1, pt2, color) ==
    [img EXCEPT !.marks = drawMark(@, [col |-> color,
                                       pts |-> RectPts(pt1[1], pt1[2], pt2[1], pt2[2])])]

\* Line 164: raw[vertical[0]:vertical[1], horizontal[0]:horizontal[1]], the
\* pixels of the buffer inside the region of interest, in its coordinates
crop(buffer, ul, br) ==
    LET roi == <<ul[1], ul[2], br[1], br[2]>>
        inside == SelectSeq(buffer.objs, LAMBDA o : NonEmpty(Clip(Bounds(o.pts), roi)))
    IN  [size |-> <<br[1] - ul[1], br[2] - ul[2]>>,
         objs |-> [i \in 1..Len(inside) |->
                      LET c == Clip(Bounds(inside[i].pts), roi)
                      IN  [col |-> inside[i].col,
                           pts |-> RectPts(c[1] - ul[1], c[2] - ul[2], c[3] - ul[1], c[4] - ul[2])]],
         marks |-> ShiftAll(buffer.marks, -ul[1], -ul[2])]

\* The slice is a view: what is drawn on it is drawn in the buffer.
write_through(buffer, view, ul) ==
    [buffer EXCEPT !.marks = ShiftAll(view.marks, ul[1], ul[2])]

\* Lines 179-180: a median over 5 x 5 pixels removes what is less than 3 pixels
\* wide; wider regions, and the 3 pixel wide lines, keep their extent
medianBlur(image) ==
    [image EXCEPT !.objs = SelectSeq(@, LAMBDA o :
        LET b == Bounds(o.pts)
        IN  2 * (b[3] - b[1]) > BLUR_KSIZE /\ 2 * (b[4] - b[2]) > BLUR_KSIZE)]

\* the HSV ranges of the four classes
RedRanges == {<<LOWER_RED_1, UPPER_RED_1>>, <<LOWER_RED_2, UPPER_RED_2>>}

BlueRanges == {<<LOWER_BLUE, UPPER_BLUE>>}

GreenRanges == {<<LOWER_GREEN, UPPER_GREEN>>}

YellowRanges == {<<LOWER_YELLOW, UPPER_YELLOW>>}

\* Lines 183, 189-191: cv2.inRange on the HSV image, or-ed over the ranges
InRanges(col, ranges) == \E r \in ranges : inRange(bgr2hsv(col), r[1], r[2])

\* how far two dilations reach, and how much three erosions take back beyond them
DilateReach == KERNEL_REACH * DILATE_ITER

NetShrink == KERNEL_REACH * (ERODE_ITER - DILATE_ITER)

\* Lines 189-193 (and 197-199, 203-205, 209-211): the mask of one class after
\* cv2.dilate and cv2.erode, as a sequence of boxes.  A region in range loses
\* NetShrink on every side.  A line in range that does not run inside a region
\* in range is a ring: dilation closes it when its hole is at most twice
\* DilateReach wide or high, and it is erased otherwise.
mask_boxes(image, ranges) ==
    LET solid == SelectSeq(image.objs, LAMBDA o :
                     InRanges(o.col, ranges) /\ NonEmpty(Inset(Bounds(o.pts), NetShrink)))
        covered(m) == \E i \in 1..Len(image.objs) :
                          /\ InRanges(image.objs[i].col, ranges)
                          /\ Within(Bounds(m.pts), Bounds(image.objs[i].pts))
        closes(m) == LET b == Bounds(m.pts)
                         reach == LineReach(THICKNESS)
                     IN  \/ (b[3] - b[1]) - 2 * reach <= 2 * DilateReach
                         \/ (b[4] - b[2]) - 2 * reach <= 2 * DilateReach
        rings == SelectSeq(image.marks, LAMBDA m :
                     /\ InRanges(m.col, ranges) /\ ~covered(m) /\ closes(m)
                     /\ NonEmpty(Inset(Bounds(m.pts), NetShrink - LineReach(THICKNESS))))
    IN  Only({[i \in 1..Len(s) |-> Inset(Bounds(s[i].pts), NetShrink)]
              \o [i \in 1..Len(r) |-> Inset(Bounds(r[i].pts), NetShrink - LineReach(THICKNESS))] :
                 s \in {solid}, r \in {rings}})

\* a box inside another box of the mask is part of it
outer_boxes(boxes) ==
    SelectSeq(boxes, LAMBDA x :
        \E i \in 1..Len(boxes) :
            /\ boxes[i] = x
            /\ \A j \in 1..Len(boxes) :
                   j # i /\ Within(boxes[i], boxes[j]) => boxes[j] = boxes[i] /\ i < j)

class_mask(image, ranges) ==
    Only({outer_boxes(boxes) : boxes \in {mask_boxes(image, ranges)}})

\* the colour of the image over the box b: that of the region around it
colour_at(image, b) ==
    IF \E i \in 1..Len(image.objs) : Within(b, Bounds(image.objs[i].pts))
    THEN image.objs[CHOOSE i \in 1..Len(image.objs) : Within(b, Bounds(image.objs[i].pts))].col
    ELSE BACKGROUND

\* Lines 194, 200, 206, 212: cv2.bitwise_and(image, image, mask=mask), the
\* pixels of the image under the mask, black elsewhere
bitwise_and(image, mask) ==
    [size |-> image.size,
     objs |-> [i \in 1..Len(mask) |->
                  [col |-> colour_at(image, mask[i]),
                   pts |-> RectPts(mask[i][1], mask[i][2], mask[i][3], mask[i][4])]],
     marks |-> SelectSeq(image.marks, LAMBDA m :
                   \E i \in 1..Len(mask) : Within(Bounds(m.pts), mask[i]))]

\* an addition that stops at 255
add_pixel_saturating(p, q) ==
    <<Min2(p[1] + q[1], 255), Min2(p[2] + q[2], 255), Min2(p[3] + q[3], 255)>>

\* uint8 addition of two pixels wraps
add_pixel(p, q) == <<(p[1] + q[1]) % 256, (p[2] + q[2]) % 256, (p[3] + q[3]) % 256>>

\* the regions of a, each plus the region of b at the same place, then the
\* regions of b alone
add_regions(a, b) ==
    LET match(r) == {j \in 1..Len(b) : b[j].pts = r.pts}
        lone == SelectSeq(b, LAMBDA r : \A i \in 1..Len(a) : a[i].pts # r.pts)
    IN  [i \in 1..Len(a) |->
            IF match(a[i]) = {} THEN a[i]
            ELSE [a[i] EXCEPT !.col = add_pixel(@, b[CHOOSE j \in match(a[i]) : TRUE].col)]]
        \o lone

\* Line 229: the + of two numpy uint8 images
add_images(a, b) ==
    [size |-> a.size, objs |-> add_regions(a.objs, b.objs), marks |-> add_regions(a.marks, b.marks)]

\* Lines 220-224: the rotation by 180 degrees about the centre
warpAffine180(image) ==
    LET turn(pts) == [i \in 1..Len(pts) |-> <<image.size[1] - pts[i][1], image.size[2] - pts[i][2]>>]
    IN  [image EXCEPT !.objs = [i \in 1..Len(@) |-> [@[i] EXCEPT !.pts = turn(@)]],
                      !.marks = [i \in 1..Len(@) |-> [@[i] EXCEPT !.pts = turn(@)]]]

\* a pipeline that runs detect on the masked image of every class
detect_inputs_every_class(res_r, res_b, res_g, res_y) == <<res_r, res_b, res_g, res_y>>

\* Lines 214-216: the masked images detect is called with, in the order of the calls
detect_inputs(res_r, res_b, res_g, res_y) == <<res_g, res_y, res_r>>

\* Lines 194, 200, 206, 212: the masked image of one class
masked(image, ranges) ==
    Only({bitwise_and(image, mask) : mask \in {class_mask(image, ranges)}})

\* the values after one more call of detect
after_detect(acc, d) ==
    [lists |-> IF d.fault THEN acc.lists ELSE Append(acc.lists, d.detected),
     display |-> d.display, fault |-> d.fault]

\* Lines 214-216: the calls of detect, each drawing on the display the one
\* before returned; a fault in one ends them
RECURSIVE detect_each(_, _, _, _, _)
detect_each(inputs, dimensions, scale, k, acc) ==
    IF k > Len(inputs) \/ acc.fault THEN acc
    ELSE Only({detect_each(inputs, dimensions, scale, k + 1, next) :
                 next \in {after_detect(acc, d) :
                              d \in {detect(inputs[k], dimensions, scale, acc.display)}}})

\* Lines 188-212: the masked images <<res_r, res_b, res_g, res_y>> of the blurred image
segment(image) ==
    <<masked(image, RedRanges), masked(image, BlueRanges),
      masked(image, GreenRanges), masked(image, YellowRanges)>>

\* Lines 214-216, on the masked images res, with raw_cropped as the first display
run_detect(res, raw_cropped) ==
    Only({detect_each(inputs, raw_cropped.size, roi_scale(raw_cropped.size), 1, first) :
             inputs \in {detect_inputs(res[1], res[2], res[3], res[4])},
             first \in {[lists |-> <<>>, display |-> raw_cropped, fault |-> FALSE]}})

\* Line 229: combined = res_r + res_b + res_y
combine(res) ==
    Only({add_images(sum, res[4]) : sum \in {add_images(res[1], res[2])}})

\* Lines 214-232, given the buffer with the rectangle drawn, its cropped view
\* and the masked images.  arrangement and combined are the values returned,
\* buffer the frame buffer after the call, display the image shown in the
\* window Detection.
detect_and_return(drawn, raw_cropped, ul, res) ==
    Only({[arrangement |-> IF run.fault THEN None ELSE run.lists,
           combined |-> IF run.fault THEN None ELSE combine(res),
           display |-> IF run.fault THEN None ELSE warpAffine180(run.display),
           buffer |-> write_through(drawn, run.display, ul),
           fault |-> run.fault] :
             run \in {run_detect(res, raw_cropped)}})

\* Lines 179-232, given the buffer with the rectangle drawn and its cropped view
blur_and_segment(drawn, raw_cropped, ul) ==
    Only({detect_and_return(drawn, view, ul, res) :
             view \in {raw_cropped},
             res \in {segment(image) : image \in {medianBlur(raw_cropped)}}})

\* Lines 140-232.  The rectangle is drawn on the buffer itself, of which the
\* cropped image is a view.
process_image(frame) ==
    LET width == frame.size[1]
        height == frame.size[2]
        ul == upper_left(width, height)
        br == bottom_right(width, height)
    IN  Only({blur_and_segment(drawn, crop(drawn, ul, br), ul) :
                 drawn \in {rectangle(frame, ul, br, ROI_COLOR)}})

-----------------------------------------------------------------------------
(* Scenes: frames of RESOLUTION = (640, 400), line 59, whose region of       *)
(* interest is the rows from 133 down.                                       *)

\* in the second red range and in the blue range
PLUM == <<125, 0, 150>>

\* the most objects in a scene
MaxObjects == 2

RESOLUTION == <<640, 400>>

\* the objects a scene is made of, no two of them within reach of each other
Things ==
    <<[col |-> RED, pts |-> RectPts(40, 160, 91, 190)],
      [col |-> MAGENTA, pts |-> RectPts(230, 160, 262, 370)],
      [col |-> TEAL, pts |-> RectPts(310, 160, 355, 205)],
      [col |-> CREAM, pts |-> RectPts(400, 160, 460, 210)],
      [col |-> NAVY, pts |-> RectPts(500, 160, 570, 220)],
      [col |-> WHITE, pts |-> RectPts(40, 250, 100, 310)],
      [col |-> PLUM, pts |-> RectPts(130, 250, 190, 300)],
      [col |-> TEAL, pts |-> RectPts(310, 250, 318, 258)],
      [col |-> RED, pts |-> RectPts(400, 20, 460, 60)]>>

Frames ==
    {[size |-> RESOLUTION,
      objs |-> SelectSeq(Things, LAMBDA t : t \in {Things[i] : i \in chosen}),
      marks |-> <<>>] :
        chosen \in {c \in SUBSET (1..Len(Things)) : Cardinality(c) <= MaxObjects}}

-----------------------------------------------------------------------------
(* Spec: the loop of main, lines 286-300 *)

Init ==
    /\ pc = "wait" /\ raw = None /\ orig = None /\ arrangement = None
    /\ processed = None /\ shown = None /\ fault = FALSE
    /\ pubImg = None /\ pubLists = None
    /\ DetectIdle /\ AngleIdle /\ TwiceIdle /\ ArmIdle

\* Lines 287-288: the next frame of the camera; orig keeps what was captured
WaitForMessage ==
    /\ pc = "wait"
    /\ raw' \in Frames
    /\ orig' = raw'
    /\ pc' = "process"
    /\ UNCHANGED <<arrangement, processed, shown, fault, pubImg, pubLists>>
    /\ UNCHANGED <<detectVars, angleVars, twiceVars, armVars>>

\* Line 290: arrangement, processed = process_image(raw)
ProcessImage ==
    /\ pc = "process"
    /\ \E result \in {process_image(raw)} :
           /\ raw' = result.buffer
           /\ fault' = result.fault
           /\ arrangement' = IF result.fault THEN arrangement ELSE result.arrangement
           /\ processed' = IF result.fault THEN processed ELSE result.combined
           /\ shown' = IF result.fault THEN shown ELSE result.display
           /\ pc' = IF result.fault THEN "crashed" ELSE "publish_img"
    /\ UNCHANGED <<orig, pubImg, pubLists>>
    /\ UNCHANGED <<detectVars, angleVars, twiceVars, armVars>>

\* Lines 292, 297
PublishImage ==
    /\ pc = "publish_img"
    /\ pubImg' = processed
    /\ pc' = "publish_lists"
    /\ UNCHANGED <<raw, orig, arrangement, processed, shown, fault, pubLists>>
    /\ UNCHANGED <<detectVars, angleVars, twiceVars, armVars>>

\* Lines 293-295, 298-300
PublishLists ==
    /\ pc = "publish_lists"
    /\ pubLists' = <<arrangement[1], arrangement[2], arrangement[3]>>
    /\ pc' = "wait"
    /\ UNCHANGED <<raw, orig, arrangement, processed, shown, fault, pubImg>>
    /\ UNCHANGED <<detectVars, angleVars, twiceVars, armVars>>

Next == WaitForMessage \/ ProcessImage \/ PublishImage \/ PublishLists

Spec == Init /\ [][Next]_vars

-----------------------------------------------------------------------------
(* SpecTwice: a caller that hands one frame buffer to process_image again *)

\* the calls made on one buffer
MaxCalls == 2

TwiceInit ==
    /\ tpc = "call"
    /\ tBuf \in Frames
    /\ tOrig = tBuf
    /\ tCalls = 0
    /\ tResults = <<>>
    /\ MainIdle /\ DetectIdle /\ AngleIdle /\ ArmIdle

TwiceCall ==
    /\ tpc = "call"
    /\ tCalls < MaxCalls
    /\ \E result \in {process_image(tBuf)} :
           /\ tBuf' = result.buffer
           /\ tResults' = Append(tResults, result.arrangement)
           /\ tpc' = IF result.fault THEN "crashed" ELSE "call"
    /\ tCalls' = tCalls + 1
    /\ UNCHANGED tOrig
    /\ UNCHANGED <<mainVars, detectVars, angleVars, armVars>>

TwiceNext == TwiceCall

SpecTwice == TwiceInit /\ [][TwiceNext]_vars

-----------------------------------------------------------------------------
(* Claims about process_image and main, checked under Spec and SpecTwice *)

Processed == pc \in {"publish_img", "publish_lists"}

\* the objects of a frame that lie in its region of interest
InROI(frame, o) == Bounds(o.pts)[2] >= frame.size[2] \div 3

\* what the morphology leaves of an object: its box less 5 pixels on every side
Core(o) == Inset(Bounds(o.pts), 5)

CoreArea(o) == (Core(o)[3] - Core(o)[1]) * (Core(o)[4] - Core(o)[2])

\* the number of objects of a class a fresh frame shows large enough
Expected(frame, ranges) ==
    Cardinality({i \in 1..Len(frame.objs) :
        /\ InROI(frame, frame.objs[i])
        /\ InRanges(frame.objs[i].col, ranges)
        /\ NonEmpty(Core(frame.objs[i])) /\ CoreArea(frame.objs[i]) > 800})

\* C2: after process_image the frame buffer holds the pixels it held when it
\* was handed in.
C2_FrameUnchanged == Processed => raw = orig

\* C3: a second call of process_image on the frame buffer of the first call
\* returns the detection sequences the first call returned.
C3_SecondCallSame == Len(tResults) >= 2 => tResults[2] = tResults[1]

\* C4 as stated: the result holds one detection sequence for each of the four
\* classes red, blue, green and yellow
C4_EveryClass == Processed => Len(arrangement) = 4

\* C4 amended: detect runs for green, yellow and red, in this order, and the
\* result holds these three sequences; the blue class is segmented but no
\* detection is made for it
C4_ThreeClasses ==
    Processed =>
        /\ Len(arrangement) = 3
        /\ Len(arrangement[1]) = Expected(orig, GreenRanges)
        /\ Len(arrangement[2]) = Expected(orig, YellowRanges)
        /\ Len(arrangement[3]) = Expected(orig, RedRanges)

\* a frame with a large blue object and a green one, and one detection in all
C4_Witness ==
    /\ Processed
    /\ \E i \in 1..Len(orig.objs) :
           /\ InRanges(orig.objs[i].col, BlueRanges) /\ ~InRanges(orig.objs[i].col, RedRanges)
           /\ InROI(orig, orig.objs[i]) /\ CoreArea(orig.objs[i]) > 800
    /\ Len(arrangement[1]) = 1 /\ arrangement[2] = <<>> /\ arrangement[3] = <<>>

NoMatch(frame) ==
    \A i \in 1..Len(frame.objs) :
        ~InRanges(frame.objs[i].col, RedRanges \cup BlueRanges \cup GreenRanges \cup YellowRanges)

\* C7: for a frame without a pixel in any colour range, every detection
\* sequence is empty, the call does not fail, and the debug frame shows the
\* pixels of the cropped input (turned or not) with nothing drawn on them.
C7_NoMatchClean ==
    Processed /\ NoMatch(orig) =>
        /\ ~fault
        /\ \A k \in 1..Len(arrangement) : arrangement[k] = <<>>
        /\ shown.marks = <<>>
        /\ LET cropped == crop(orig, <<0, orig.size[2] \div 3>>, orig.size)
           IN  shown.objs = cropped.objs \/ shown.objs = warpAffine180(cropped).objs

\* the sum of n pixels of one colour, as uint8
Times(col, n) == <<(n * col[1]) % 256, (n * col[2]) % 256, (n * col[3]) % 256>>

\* the number of the classes red, blue and yellow a colour is in
Summed(col) ==
    Cardinality({ranges \in {RedRanges, BlueRanges, YellowRanges} : InRanges(col, ranges)})

\* the regions of the sum of the red, blue and yellow masked images of a fresh frame
ExpectedCombined(frame) ==
    {[col |-> Times(frame.objs[i].col, Summed(frame.objs[i].col)),
      pts |-> LET c == Core(frame.objs[i])
              IN  RectPts(c[1], c[2] - frame.size[2] \div 3, c[3], c[4] - frame.size[2] \div 3)] :
        i \in {j \in 1..Len(frame.objs) :
                  /\ InROI(frame, frame.objs[j]) /\ NonEmpty(Core(frame.objs[j]))
                  /\ Summed(frame.objs[j].col) > 0}}

\* C8 as stated: the image published is the debug frame with the outlines
C8_PublishesDebugFrame ==
    pc = "publish_lists" => pubImg = shown \/ pubImg = warpAffine180(shown)

\* C8 amended: the image published is the uint8 sum of the red, blue and yellow
\* masked images of the frame of this iteration, which carries no outline, and
\* an image is published only after process_image has returned it
C8_PublishesCombined ==
    /\ [](pc = "publish_lists" =>
            /\ pubImg.marks = <<>>
            /\ {pubImg.objs[i] : i \in 1..Len(pubImg.objs)} = ExpectedCombined(orig)
            /\ Len(pubImg.objs) = Cardinality(ExpectedCombined(orig)))
    /\ [][(pc = "publish_img" /\ pubImg' = processed) \/ UNCHANGED pubImg]_vars

\* an image published with a region whose colour wrapped, while the debug frame
\* carries an outline
C8_Witness ==
    /\ pc = "publish_lists"
    /\ \E i \in 1..Len(pubImg.objs) :
           \A j \in 1..Len(orig.objs) : pubImg.objs[i].col # orig.objs[j].col
    /\ \E i \in 1..Len(shown.marks) : shown.marks[i].col = OUTLINE_COLOR

-----------------------------------------------------------------------------
(* SpecAngle: get_angle applied to one rectangle *)

\* the longest edge, in steps of its direction
MaxEdge == 3

Directions ==
    {<<1, 0>>, <<1, 1>>, <<0, 1>>, <<-1, 1>>, <<-1, 0>>, <<-1, -1>>, <<0, -1>>, <<1, -1>>}

Corners == {<<40, 40>>, <<100, 60>>}

\* rectangles with edges of non-zero length along an axis or a diagonal
Boxes ==
    {<<p,
       <<p[1] + a * d[1], p[2] + a * d[2]>>,
       <<p[1] + a * d[1] - b * d[2], p[2] + a * d[2] + b * d[1]>>,
       <<p[1] - b * d[2], p[2] + b * d[1]>>>> :
        p \in Corners, d \in Directions, a \in 1..MaxEdge, b \in 1..MaxEdge}

AngleInit ==
    /\ gpc = "ready"
    /\ gBox \in Boxes
    /\ gOut = None
    /\ MainIdle /\ DetectIdle /\ TwiceIdle /\ ArmIdle

GetAngleCall ==
    /\ gpc = "ready"
    /\ gOut' = get_angle(gBox)
    /\ gpc' = "done"
    /\ UNCHANGED <<gBox, mainVars, detectVars, twiceVars, armVars>>

AngleNext == GetAngleCall

SpecAngle == AngleInit /\ [][AngleNext]_vars

gEdge1 == <<gBox[2][1] - gBox[1][1], gBox[2][2] - gBox[1][2]>>

gEdge2 == <<gBox[3][1] - gBox[2][1], gBox[3][2] - gBox[2][2]>>

\* deg, one of 0, 45, 90, 135, 180, is the angle between e and (1, 0):
\* cos(deg) = e[1] / |e|
UnsignedAngle(e, deg) ==
    /\ deg \in {0, 45, 90, 135, 180}
    /\ 4 * e[1] * e[1] = (CASE deg \in {0, 180} -> 4 [] deg \in {45, 135} -> 2 [] deg = 90 -> 0) * Norm2(e)
    /\ (deg < 90 => e[1] > 0) /\ (deg > 90 => e[1] < 0)

-----------------------------------------------------------------------------
(* SpecArm: Arm.pick_and_place_plan, src/easy_baxter/__init__.py lines 200-237 *)

\* poses of the gripper: x, y, z in centimetres
Poses == {<<60, 20, -5>>, <<60, -20, -5>>, <<75, 0, 10>>}

\* Lines 209-218: the inner function builds its target from pick_pose, the
\* argument of the method it is defined in, and not from its own argument
\* pose; found tells whether the planner returns a trajectory with points
plan_to_pose(pose, outer_pick_pose, found) == [goal |-> outer_pick_pose, points |-> found]

Event(name, to) == [ev |-> name, to |-> to]

ArmInit ==
    /\ apc = "open_first"
    /\ pick_pose \in Poses
    /\ place_pose \in Poses
    /\ grip \in {"open", "closed"}
    /\ target = None /\ pick_plan = None /\ place_plan = None
    /\ alog = <<>>
    /\ MainIdle /\ DetectIdle /\ AngleIdle /\ TwiceIdle

\* Line 206
GripOpenFirst ==
    /\ apc = "open_first"
    /\ grip' = "open"
    /\ alog' = Append(alog, Event("open", None))
    /\ apc' = "plan_pick"
    /\ UNCHANGED <<pick_pose, place_pose, target, pick_plan, place_plan>>
    /\ UNCHANGED <<mainVars, detectVars, angleVars, twiceVars>>

\* Line 220
PlanPick ==
    /\ apc = "plan_pick"
    /\ \E found \in BOOLEAN :
           LET plan == plan_to_pose(pick_pose, pick_pose, found)
           IN  target' = plan.goal /\ pick_plan' = plan
    /\ apc' = "go_pick"
    /\ UNCHANGED <<pick_pose, place_pose, grip, place_plan, alog>>
    /\ UNCHANGED <<mainVars, detectVars, angleVars, twiceVars>>

\* Lines 222-225: go moves the arm to the pose target of the planning group
GoPick ==
    /\ apc = "go_pick"
    /\ alog' = IF ~pick_plan.points
               THEN Append(alog, Event("No pick trajectory found", None))
               ELSE Append(alog, Event("go", target))
    /\ apc' = "close"
    /\ UNCHANGED <<pick_pose, place_pose, grip, target, pick_plan, place_plan>>
    /\ UNCHANGED <<mainVars, detectVars, angleVars, twiceVars>>

\* Line 227
GripClose ==
    /\ apc = "close"
    /\ grip' = "closed"
    /\ alog' = Append(alog, Event("close", None))
    /\ apc' = "plan_place"
    /\ UNCHANGED <<pick_pose, place_pose, target, pick_plan, place_plan>>
    /\ UNCHANGED <<mainVars, detectVars, angleVars, twiceVars>>

\* Line 230
PlanPlace ==
    /\ apc = "plan_place"
    /\ \E found \in BOOLEAN :
           LET plan == plan_to_pose(place_pose, pick_pose, found)
           IN  target' = plan.goal /\ place_plan' = plan
    /\ apc' = "go_place"
    /\ UNCHANGED <<pick_pose, place_pose, grip, pick_plan, alog>>
    /\ UNCHANGED <<mainVars, detectVars, angleVars, twiceVars>>

\* Lines 232-235: the test reads pick_plan
GoPlace ==
    /\ apc = "go_place"
    /\ alog' = IF ~pick_plan.points
               THEN Append(alog, Event("No place trajectory found", None))
               ELSE Append(alog, Event("go", target))
    /\ apc' = "open_last"
    /\ UNCHANGED <<pick_pose, place_pose, grip, target, pick_plan, place_plan>>
    /\ UNCHANGED <<mainVars, detectVars, angleVars, twiceVars>>

\* Line 237
GripOpenLast ==
    /\ apc = "open_last"
    /\ grip' = "open"
    /\ alog' = Append(alog, Event("open", None))
    /\ apc' = "done"
    /\ UNCHANGED <<pick_pose, place_pose, target, pick_plan, place_plan>>
    /\ UNCHANGED <<mainVars, detectVars, angleVars, twiceVars>>

ArmNext ==
    \/ GripOpenFirst \/ PlanPick \/ GoPick \/ GripClose
    \/ PlanPlace \/ GoPlace \/ GripOpenLast

SpecArm == ArmInit /\ [][ArmNext]_vars

\* the position of the one close event in the log
ClosedAt == CHOOSE k \in 1..Len(alog) : alog[k].ev = "close"

\* C10: the gripper opens, the arm moves only to pick_pose before the gripper
\* closes and only to place_pose after it, the gripper opens again, and the arm
\* moves after the close only if a trajectory was found for place_pose.
C10_PickThenPlace ==
    apc = "done" =>
        /\ alog[1].ev = "open" /\ alog[Len(alog)].ev = "open"
        /\ \A k \in 1..Len(alog) :
               alog[k].ev = "go" =>
                   alog[k].to = (IF k < ClosedAt THEN pick_pose ELSE place_pose)
        /\ (\E k \in 1..Len(alog) : k > ClosedAt /\ alog[k].ev = "go") => place_plan.points

====
